---- MODULE Spec2Model ----
(***************************************************************************)
(* FinanceStocks: the Quote Gateway (src/pages/api/stock.ts, `handler`)    *)
(* and the Dashboard Controller (the `Home` component of the page).        *)
(*                                                                         *)
(* SpecGateway runs one request through `handler`.                         *)
(* Spec runs the controller: mount, typing, the Get Data button, Enter,    *)
(* the history buttons, timers, fetches in flight and the favourite star.  *)
(* SpecSeries runs fetches over longer time series, SpecHistory runs       *)
(* searches over more symbols than the history keeps.                      *)
(***************************************************************************)
EXTENDS Integers, Sequences, FiniteSets, Bags, TLC

VARIABLES
    \* ---- Quote Gateway: one invocation of handler(req, res) ----
    gpc,        \* position of the handler: "entry", "awaitFetch", "awaitText", "awaitJson", "done"
    reqSymbol,  \* req.query.symbol
    API_KEY,    \* process.env.ALPHA_VANTAGE_API_KEY
    response,   \* what `await fetch(url)` produced (NoResponse before it settles)
    fetched,    \* the upstream URLs requested so far, in order
    res,        \* the HTTP responses sent so far, in order
    \* ---- Dashboard Controller: the state of Home ----
    mounted,        \* the mount effects have run
    urlSymbol,      \* URLSearchParams(window.location.search).get('symbol')
    symbol,         \* useState('')
    stockData,      \* useState(null): <<>> for null, <<snapshot>> otherwise
    error,          \* useState('')
    loading,        \* useState(false)
    history,        \* useState([])
    favorites,      \* useState([])
    multiDayData,   \* useState([])
    storedHistory,  \* localStorage 'stockSearchHistory': <<>> absent, <<text>> stored
    storedFavorites,\* localStorage 'stockFavorites'
    timers,         \* pending setTimeout(fetchStock, ..) callbacks, by the render they closed over
    inflight,       \* fetchStock calls suspended at `await fetch`, by the symbol they closed over
    searches,       \* symbols typed so far, and how many of them were already in
                    \* the history (counted in SpecHistory only, to bound it)
    last,           \* history variable: the operation that produced this state
    overlapped      \* history variable: the latest fetchStock call was made while
                    \* another one was suspended at `await fetch`

gvars == <<gpc, reqSymbol, API_KEY, response, fetched, res>>
cvars == <<mounted, urlSymbol, symbol, stockData, error, loading, history, favorites,
           multiDayData, storedHistory, storedFavorites, timers, inflight, searches, last,
           overlapped>>
vars  == <<gvars, cvars>>

(***************************************************************************)
(* JSON values.  A scalar is [t, v] with v its text; an object payload is  *)
(* [t |-> "obj", fields |-> function from its keys to values].             *)
(***************************************************************************)
Str(s)  == [t |-> "str", v |-> s]
JNull   == [t |-> "null", v |-> "null"]
JFalse  == [t |-> "bool", v |-> "false"]
JZero   == [t |-> "num", v |-> "0"]

\* an object value, here the "Time Series (Daily)" mapping from date keys to bars
JSeries(ts) == [t |-> "obj", v |-> ts]

\* JavaScript truthiness of a JSON value (the `if (x)` tests of the sources)
Truthy(val) ==
    CASE val.t = "str"  -> val.v # ""
      [] val.t = "null" -> FALSE
      [] val.t = "bool" -> val.v = "true"
      [] val.t = "num"  -> val.v # "0"
      [] OTHER          -> TRUE

Obj(f)     == [t |-> "obj", fields |-> f]
NoFields   == <<>>
NullData   == [t |-> "null", fields |-> NoFields]
NumberData == [t |-> "num", fields |-> NoFields]

HasField(data, key) == data.t = "obj" /\ key \in DOMAIN data.fields

\* data[key] is undefined (falsy) when the key is absent or data is a primitive
FieldTruthy(data, key) == HasField(data, key) /\ Truthy(data.fields[key])

\* { error: <val> }
ErrorBody(val) == Obj("error" :> val)

(***************************************************************************)
(* Text.  Date keys and the numeric strings of the provider's wire format  *)
(* are sequences of characters, so that sorting and the unary + of the     *)
(* sources are computed on them.                                           *)
(***************************************************************************)
Digit == <<"0", "1", "2", "3", "4", "5", "6", "7", "8", "9">>

\* the decimal string of n >= 0
RECURSIVE NumStr(_)
NumStr(n) == IF n < 10 THEN <<Digit[n + 1]>> ELSE NumStr(n \div 10) \o <<Digit[(n % 10) + 1]>>

\* UTF-16 code unit of a character of a key
CharCode(c) ==
    IF c = "-" THEN 45 ELSE 47 + (CHOOSE i \in 1..10 : Digit[i] = c)

\* unary + on a string of decimal digits
RECURSIVE ToNumber(_)
ToNumber(str) ==
    IF str = <<>> THEN 0
    ELSE ToNumber(SubSeq(str, 1, Len(str) - 1)) * 10 + (CharCode(str[Len(str)]) - 48)

\* the order Array.prototype.sort() uses without a comparator
RECURSIVE LexLess(_, _)
LexLess(a, b) ==
    IF a = <<>> THEN b # <<>>
    ELSE IF b = <<>> THEN FALSE
    ELSE IF CharCode(Head(a)) # CharCode(Head(b)) THEN CharCode(Head(a)) < CharCode(Head(b))
    ELSE LexLess(Tail(a), Tail(b))

RECURSIVE SortAsc(_)
SortAsc(S) ==
    IF S = {} THEN <<>>
    ELSE LET m == CHOOSE x \in S : \A y \in S \ {x} : LexLess(x, y)
         IN <<m>> \o SortAsc(S \ {m})

\* Array.prototype.reverse()
RECURSIVE Reverse(_)
Reverse(seq) == IF seq = <<>> THEN <<>> ELSE Append(Reverse(Tail(seq)), Head(seq))

Min(a, b) == IF a < b THEN a ELSE b

\* Array.prototype.slice(0, n)
Slice(seq, n) == SubSeq(seq, 1, Min(n, Len(seq)))

(***************************************************************************)
(* The provider's daily series: ISO date keys, bars of numeric strings     *)
(***************************************************************************)
\* "2024-01-DD"
DateKey(day) ==
    <<"2", "0", "2", "4", "-", "0", "1", "-">> \o (IF day < 10 THEN <<"0">> ELSE <<>>) \o NumStr(day)

DayOf(date) == ToNumber(SubSeq(date, 9, 10))

\* the bar of a day; the two variants order the closes differently
WireBar(day, variant) ==
    ("1. open"   :> NumStr(100 + day)) @@
    ("2. high"   :> NumStr(200 + day)) @@
    ("3. low"    :> NumStr(day)) @@
    ("4. close"  :> NumStr(IF variant = 1 THEN 100 + 2 * day ELSE 190 - 3 * day)) @@
    ("5. volume" :> NumStr(1000 * day))

\* the series of the days D
RECURSIVE SeriesOn(_, _)
SeriesOn(D, variant) ==
    IF D = {} THEN <<>>
    ELSE LET day == CHOOSE x \in D : TRUE
         IN (DateKey(day) :> WireBar(day, variant)) @@ SeriesOn(D \ {day}, variant)

\* every series over a subset of the first n days
SeriesOver(n, variants) ==
    { SeriesOn(D, v) : D \in SUBSET (1..n), v \in variants }

OneDaySeries == SeriesOn({1}, 1)

(***************************************************************************)
(* Inputs of the gateway                                                   *)
(***************************************************************************)
Undefined == "<undefined>"
ArrayParam == "<string[]>"      \* ?symbol=A&symbol=B parses to an array

ReqSymbols == {Undefined, "", ArrayParam, "AAPL", "MSFT"}
ApiKeys    == {Undefined, "", "demo"}

IsString(s) == s # Undefined /\ s # ArrayParam

Statuses == {200, 201, 404, 429, 500}
Ok(status) == status >= 200 /\ status <= 299

Texts == {"", "Not Found", "upstream down"}

ErrorMessageValues == {Str("Invalid API call"), Str(""), JNull, JFalse, JZero}
NoteValues         == {Str("rate limited"), Str("")}
SeriesValues       == {JSeries(OneDaySeries)}

FieldValues(key) ==
    CASE key = "Error Message" -> ErrorMessageValues
      [] key = "Note"          -> NoteValues
      [] OTHER                 -> SeriesValues

PayloadKeys == {"Error Message", "Note", "Time Series (Daily)"}

ObjectPayloads ==
    UNION { { Obj(f) : f \in { g \in [D -> ErrorMessageValues \cup NoteValues \cup SeriesValues] :
                                 \A k \in D : g[k] \in FieldValues(k) } } :
            D \in SUBSET PayloadKeys }

Payloads == ObjectPayloads \cup {NullData, NumberData}

Unreadable   == "<body stream error>"
JsonText     == "<JSON text>"
InvalidJson  == [t |-> "invalid", fields |-> NoFields]

NoResponse   == [kind |-> "none", status |-> 0, text |-> Unreadable, data |-> InvalidJson]
NetworkError == [kind |-> "rejected", status |-> 0, text |-> Unreadable, data |-> InvalidJson]

\* A settled upstream response: its status, what text() gives (read only when
\* the status is not 2xx) and what json() gives (read only when it is)
Responses ==
    { [kind |-> "response", status |-> s, text |-> JsonText, data |-> d] :
        s \in {x \in Statuses : Ok(x)}, d \in Payloads \cup {InvalidJson} }
    \cup
    { [kind |-> "response", status |-> s, text |-> b, data |-> InvalidJson] :
        s \in {x \in Statuses : ~Ok(x)}, b \in Texts \cup {Unreadable} }

\* the page is not open while the gateway is run on its own
ControllerIdle ==
    /\ mounted = FALSE
    /\ urlSymbol = "<null>"
    /\ symbol = ""
    /\ stockData = <<>>
    /\ error = ""
    /\ loading = FALSE
    /\ history = <<>>
    /\ favorites = <<>>
    /\ multiDayData = <<>>
    /\ storedHistory = <<>>
    /\ storedFavorites = <<>>
    /\ timers = EmptyBag
    /\ inflight = EmptyBag
    /\ searches = [typed |-> 0, repeats |-> 0]
    /\ last = [op |-> "none"]
    /\ overlapped = FALSE

Url(sym, key) ==
    "https://www.alphavantage.co/query?function=TIME_SERIES_DAILY&symbol="
        \o sym \o "&apikey=" \o key

\* res.status(code).json(body)
Send(code, body) == Append(res, [status |-> code, body |-> body])

FetchFailedBody == ErrorBody(Str("Failed to fetch data"))

InitGateway ==
    /\ gpc = "entry"
    /\ reqSymbol \in ReqSymbols
    /\ API_KEY \in ApiKeys
    /\ response = NoResponse
    /\ fetched = <<>>
    /\ res = <<>>
    /\ ControllerIdle

\* HandlerEntry with the `return` of line 8 lost: the 400 is sent and the
\* handler goes on to the upstream GET
HandlerEntryNoReturn ==
    /\ gpc = "entry"
    /\ IF reqSymbol = Undefined \/ reqSymbol = "" \/ ~IsString(reqSymbol)
       THEN /\ res' = Send(400, ErrorBody(Str("Missing symbol parameter")))
            /\ fetched' = Append(fetched, Url("", "demo"))
            /\ gpc' = "awaitFetch"
       ELSE IF API_KEY = Undefined \/ API_KEY = ""
       THEN /\ res' = Send(500, ErrorBody(Str("API key not set in environment variables")))
            /\ gpc' = "done"
            /\ UNCHANGED fetched
       ELSE /\ fetched' = Append(fetched, Url(reqSymbol, API_KEY))
            /\ gpc' = "awaitFetch"
            /\ UNCHANGED res
    /\ UNCHANGED <<reqSymbol, API_KEY, response>>

\* lines 4-22: validation, configuration, and the upstream GET
HandlerEntry ==
    /\ gpc = "entry"
    /\ IF reqSymbol = Undefined \/ reqSymbol = "" \/ ~IsString(reqSymbol)
       THEN /\ res' = Send(400, ErrorBody(Str("Missing symbol parameter")))
            /\ gpc' = "done"
            /\ UNCHANGED fetched
       ELSE IF API_KEY = Undefined \/ API_KEY = ""
       THEN /\ res' = Send(500, ErrorBody(Str("API key not set in environment variables")))
            /\ gpc' = "done"
            /\ UNCHANGED fetched
       ELSE /\ fetched' = Append(fetched, Url(reqSymbol, API_KEY))
            /\ gpc' = "awaitFetch"
            /\ UNCHANGED res
    /\ UNCHANGED <<reqSymbol, API_KEY, response>>

\* line 22 rejects: the catch block, lines 46-49
FetchRejects ==
    /\ gpc = "awaitFetch"
    /\ response' = NetworkError
    /\ res' = Send(500, FetchFailedBody)
    /\ gpc' = "done"
    /\ UNCHANGED <<reqSymbol, API_KEY, fetched>>

\* line 22 resolves; line 24 picks the branch
FetchResolves ==
    /\ gpc = "awaitFetch"
    /\ \E r \in Responses :
        /\ response' = r
        /\ gpc' = IF ~Ok(r.status) THEN "awaitText" ELSE "awaitJson"
    /\ UNCHANGED <<reqSymbol, API_KEY, fetched, res>>

ErrorText(text) == "Alpha Vantage error: " \o text

\* ReadText answering 500 whatever the upstream status was
ReadTextFixedStatus ==
    /\ gpc = "awaitText"
    /\ IF response.text = Unreadable
       THEN res' = Send(500, FetchFailedBody)
       ELSE res' = Send(500, ErrorBody(Str(ErrorText(response.text))))
    /\ gpc' = "done"
    /\ UNCHANGED <<reqSymbol, API_KEY, response, fetched>>

\* lines 25-28 (text() may reject: lines 46-49)
ReadText ==
    /\ gpc = "awaitText"
    /\ IF response.text = Unreadable
       THEN res' = Send(500, FetchFailedBody)
       ELSE res' = Send(response.status, ErrorBody(Str(ErrorText(response.text))))
    /\ gpc' = "done"
    /\ UNCHANGED <<reqSymbol, API_KEY, response, fetched>>

\* Classify with the two tests of lines 33 and 39 in the other order
ClassifyNoteFirst(data) ==
    IF data.t = "null" THEN [status |-> 500, body |-> FetchFailedBody]
    ELSE IF FieldTruthy(data, "Note")
    THEN [status |-> 429, body |-> ErrorBody(data.fields["Note"])]
    ELSE IF FieldTruthy(data, "Error Message")
    THEN [status |-> 500, body |-> ErrorBody(data.fields["Error Message"])]
    ELSE [status |-> 200, body |-> data]

\* lines 33-45 on the parsed payload; reading a property of null throws
Classify(data) ==
    IF data.t = "null" THEN [status |-> 500, body |-> FetchFailedBody]
    ELSE IF FieldTruthy(data, "Error Message")
    THEN [status |-> 500, body |-> ErrorBody(data.fields["Error Message"])]
    ELSE IF FieldTruthy(data, "Note")
    THEN [status |-> 429, body |-> ErrorBody(data.fields["Note"])]
    ELSE [status |-> 200, body |-> data]

\* lines 31-45 (json() may reject: lines 46-49)
ReadJson ==
    /\ gpc = "awaitJson"
    /\ IF response.data = InvalidJson
       THEN res' = Send(500, FetchFailedBody)
       ELSE LET c == Classify(response.data) IN res' = Send(c.status, c.body)
    /\ gpc' = "done"
    /\ UNCHANGED <<reqSymbol, API_KEY, response, fetched>>

NextGateway ==
    \/ HandlerEntry
    \/ FetchRejects
    \/ FetchResolves
    \/ ReadText
    \/ ReadJson

SpecGateway == InitGateway /\ [][NextGateway /\ UNCHANGED cvars]_vars

(***************************************************************************)
(* The Dashboard Controller                                                *)
(***************************************************************************)
\* bounds of the model
MaxPending  == 1     \* Spec: pending timers plus fetchStock calls suspended at the network call
MaxOverlap  == 2     \* SpecOverlap: the same
NumDays     == 1     \* days a series of Spec and SpecOverlap may hold
NumDaysLong == 11    \* days a series of SpecSeries may hold
NumTickers  == 11    \* symbols searched in SpecHistory
MaxSearches == 12    \* symbols typed in SpecHistory
MaxRepeats  == 1     \* of which symbols already in the history

\* program constants
HistoryLimit == 10   \* .slice(0, 10) of addToHistory
SeriesLimit  == 10   \* dates.slice(0, 10) of fetchStock

NoParam == "<null>"

\* String.prototype.toUpperCase on the texts the model types
Upper(text) ==
    CASE text = "aapl" -> "AAPL"
      [] text = "msft" -> "MSFT"
      [] OTHER         -> text

Tickers == <<"AAPL", "MSFT", "GOOGL", "AMZN", "TSLA", "META", "NFLX", "NVDA",
             "IBM", "ORCL", "INTC", "AMD", "CSCO", "ADBE", "CRM", "UBER">>

None    == <<>>
Some(x) == <<x>>

\* what `await fetch('/api/stock?symbol=..')` and `await res.json()` give fetchStock
NoReply    == [kind |-> "none", ok |-> FALSE, data |-> InvalidJson]
ReplyThrow == [kind |-> "throw", ok |-> FALSE, data |-> InvalidJson]
ReplyOk(data)  == [kind |-> "json", ok |-> TRUE, data |-> data]
ReplyErr(data) == [kind |-> "json", ok |-> FALSE, data |-> data]

SeriesData(ts) == Obj("Time Series (Daily)" :> JSeries(ts))

\* the replies the gateway can give: 200 with the provider's payload, an error
\* status with {error: ..}; or the call or its JSON parse throws
Replies(seriesSet) ==
    {ReplyThrow}
    \cup {ReplyOk(SeriesData(ts)) : ts \in seriesSet}
    \cup {ReplyOk(Obj(NoFields))}
    \cup {ReplyErr(ErrorBody(Str("Alpha Vantage error: Not Found"))),
          ReplyErr(Obj("Error Message" :> Str("Invalid API call")))}

\* the history variable
\* the history variable: the operation (a fetchStock call, a settled network
\* call, a toggle), how it was started, the symbol it closed over or toggled, the
\* reply it got, the favorites before a toggle, and before the toggle preceding
\* it when that one was the step before and on the same symbol
Event(op, via, sym, reply, before, twoBefore) ==
    [op |-> op, via |-> via, sym |-> sym, reply |-> reply, before |-> before,
     twoBefore |-> twoBefore]

NoEvent == Event("none", "", "", NoReply, <<>>, <<>>)

Timer(captured, origin) == [sym |-> captured, origin |-> origin]

TimerCount    == BagCardinality(timers)
InflightCount == BagCardinality(inflight)
PendingCount  == TimerCount + InflightCount

Contains(seq, x) == \E i \in 1..Len(seq) : seq[i] = x

\* Array.prototype.filter(e => e !== x)
RECURSIVE Without(_, _)
Without(seq, x) ==
    IF seq = <<>> THEN <<>>
    ELSE IF Head(seq) = x THEN Without(Tail(seq), x)
    ELSE <<Head(seq)>> \o Without(Tail(seq), x)

\* addToHistory without the filter of line 98
AddToHistoryNoFilter(prev, sym) == Slice(<<sym>> \o prev, HistoryLimit)

\* lines 96-101
AddToHistory(prev, sym) == Slice(<<sym>> \o Without(prev, sym), HistoryLimit)

\* toggleFavorite with the predicate of its filter inverted (f === sym)
ToggleFavoriteInvertedFilter(favs, sym) ==
    IF Contains(favs, sym) THEN SelectSeq(favs, LAMBDA f : f = sym) ELSE Append(favs, sym)

\* lines 87-93; toggleFavorite(sym) on the favorites of the current render
ToggleFavorite(favs, sym) ==
    IF Contains(favs, sym) THEN Without(favs, sym) ELSE Append(favs, sym)

\* line 141 without .reverse()
SortedDatesAscending(timeSeries) == SortAsc(DOMAIN timeSeries)

\* line 141
SortedDates(timeSeries) == Reverse(SortAsc(DOMAIN timeSeries))

\* lines 146-156
DayBar(timeSeries, date) ==
    [date   |-> date,
     open   |-> ToNumber(timeSeries[date]["1. open"]),
     high   |-> ToNumber(timeSeries[date]["2. high"]),
     low    |-> ToNumber(timeSeries[date]["3. low"]),
     close  |-> ToNumber(timeSeries[date]["4. close"]),
     volume |-> ToNumber(timeSeries[date]["5. volume"])]

\* Array.prototype.map(date => ..)
RECURSIVE MapDayBar(_, _)
MapDayBar(timeSeries, dates) ==
    IF dates = <<>> THEN <<>>
    ELSE <<DayBar(timeSeries, Head(dates))>> \o MapDayBar(timeSeries, Tail(dates))

MultiDays(timeSeries) == MapDayBar(timeSeries, Slice(SortedDates(timeSeries), SeriesLimit))

\* line 165
PrevClose(timeSeries) ==
    LET dates == SortedDates(timeSeries) IN
    IF Len(dates) > 1 THEN Some(ToNumber(timeSeries[dates[2]]["4. close"])) ELSE None

\* lines 142-143, 158-166 (dates is not empty)
Snapshot(timeSeries) ==
    LET dates == SortedDates(timeSeries)
        latestData == timeSeries[dates[1]]
    IN [date      |-> dates[1],
        open      |-> ToNumber(latestData["1. open"]),
        high      |-> ToNumber(latestData["2. high"]),
        low       |-> ToNumber(latestData["3. low"]),
        close     |-> ToNumber(latestData["4. close"]),
        volume    |-> ToNumber(latestData["5. volume"]),
        prevClose |-> PrevClose(timeSeries)]

\* the strings the two lists can hold: the tickers, and the empty symbol
StorableStrings == {""} \cup {Tickers[i] : i \in 1..Len(Tickers)}

\* JSON text, as the sequence of its lexemes.  A string literal is the string
\* between quotes (the symbols of the model need no escape)
JsonString(s) == "\"" \o s \o "\""

RECURSIVE JoinLiterals(_)
JoinLiterals(list) ==
    IF list = <<>> THEN <<>>
    ELSE IF Len(list) = 1 THEN <<JsonString(list[1])>>
    ELSE <<JsonString(Head(list)), ",">> \o JoinLiterals(Tail(list))

\* lines 79, 83: JSON.stringify of an array of strings
Stringify(list) == <<"[">> \o JoinLiterals(list) \o <<"]">>

IsLiteral(lexeme) == \E s \in StorableStrings : JsonString(s) = lexeme

Unquote(lexeme) == CHOOSE s \in StorableStrings : JsonString(s) = lexeme

\* the elements of `literal , literal , ..`; <<FALSE>> where it is malformed
RECURSIVE ParseElements(_)
ParseElements(body) ==
    IF body = <<>> \/ ~IsLiteral(Head(body)) THEN <<FALSE>>
    ELSE IF Len(body) = 1 THEN <<TRUE, <<Unquote(body[1])>>>>
    ELSE IF body[2] # "," THEN <<FALSE>>
    ELSE LET rest == ParseElements(SubSeq(body, 3, Len(body))) IN
         IF rest[1] THEN <<TRUE, <<Unquote(body[1])>> \o rest[2]>> ELSE <<FALSE>>

\* lines 28, 42: JSON.parse of the text of an array of strings; <<TRUE, list>>,
\* or <<FALSE>> where JSON.parse throws
Parse(text) ==
    IF Len(text) < 2 \/ text[1] # "[" \/ text[Len(text)] # "]" THEN <<FALSE>>
    ELSE IF Len(text) = 2 THEN <<TRUE, <<>>>>
    ELSE ParseElements(SubSeq(text, 2, Len(text) - 1))

\* lines 79, 83: localStorage.setItem(key, JSON.stringify(list))
Stored(list) == Some(Stringify(list))

\* lines 25-32, 39-46: the list a restore effect sets from localStorage.getItem;
\* an absent or empty item leaves the initial [], a text that does not parse
\* sets []
Restored(item) ==
    IF item = None \/ item[1] = <<>> THEN <<>>
    ELSE LET parsed == Parse(item[1]) IN
         IF parsed[1] THEN parsed[2] ELSE <<>>

\* a stored text cut short, on which JSON.parse throws
Truncated == Some(<<"[", JsonString("MSFT"), ",">>)

\* what localStorage may hold at startup, as <<history, favorites>>: nothing,
\* what an earlier session wrote, or a damaged text
StoredLists == {<<None, None>>,
                <<Stored(<<"MSFT">>), Stored(<<"MSFT">>)>>,
                <<Truncated, Truncated>>}

InitController(urls, stores) ==
    /\ mounted = FALSE
    /\ urlSymbol \in urls
    /\ symbol = ""
    /\ stockData = None
    /\ error = ""
    /\ loading = FALSE
    /\ history = <<>>
    /\ favorites = <<>>
    /\ multiDayData = <<>>
    /\ \E st \in stores : storedHistory = st[1] /\ storedFavorites = st[2]
    /\ timers = EmptyBag
    /\ inflight = EmptyBag
    /\ searches = [typed |-> 0, repeats |-> 0]
    /\ last = NoEvent
    /\ overlapped = FALSE

\* lines 24-33, 38-47, 78-84, 187-194: the effects of the first render, and the
\* render they cause.  The timer holds the fetchStock of the first render.
Mount ==
    /\ ~mounted
    /\ mounted' = TRUE
    /\ history' = Restored(storedHistory)
    /\ favorites' = Restored(storedFavorites)
    /\ storedHistory' = Stored(history')
    /\ storedFavorites' = Stored(favorites')
    /\ IF urlSymbol # NoParam /\ urlSymbol # ""
       THEN /\ symbol' = Upper(urlSymbol)
            /\ timers' = timers (+) SetToBag({Timer(symbol, "mount")})
       ELSE UNCHANGED <<symbol, timers>>
    /\ last' = NoEvent
    /\ UNCHANGED <<urlSymbol, stockData, error, loading, multiDayData, inflight, searches>>
    /\ UNCHANGED overlapped
    /\ UNCHANGED gvars

\* line 241: onChange of the input, which is disabled while loading
ChangeInput(texts) ==
    /\ mounted
    /\ ~loading
    /\ \E text \in texts :
        /\ symbol' = Upper(text)
        /\ last' = NoEvent
    /\ UNCHANGED <<mounted, urlSymbol, stockData, error, loading, history, favorites,
                   multiDayData, storedHistory, storedFavorites, timers, inflight, searches>>
    /\ UNCHANGED overlapped
    /\ UNCHANGED gvars

\* line 241 again, for SpecHistory: the user types the next ticker of the list,
\* or (MaxRepeats times) a symbol that is in the history
TypeSearch ==
    /\ mounted
    /\ ~loading
    /\ searches.typed < MaxSearches
    /\ \/ /\ symbol' = Upper(Tickers[((searches.typed - searches.repeats) % NumTickers) + 1])
          /\ searches' = [searches EXCEPT !.typed = @ + 1]
       \/ /\ searches.repeats < MaxRepeats
          /\ \E i \in 1..Len(history) : symbol' = Upper(history[i])
          /\ searches' = [typed |-> searches.typed + 1, repeats |-> searches.repeats + 1]
    /\ last' = NoEvent
    /\ UNCHANGED <<mounted, urlSymbol, stockData, error, loading, history, favorites,
                   multiDayData, storedHistory, storedFavorites, timers, inflight>>
    /\ UNCHANGED overlapped
    /\ UNCHANGED gvars

\* fetchStock without the three resets of lines 120-122
FetchStockNoClear(captured, via) ==
    /\ IF captured = ""
       THEN /\ error' = "Please enter a stock symbol"
            /\ UNCHANGED <<loading, inflight>>
       ELSE /\ UNCHANGED error
            /\ loading' = TRUE
            /\ inflight' = inflight (+) SetToBag({captured})
    /\ last' = Event("fetch", via, captured, NoReply, <<>>, <<>>)
    /\ overlapped' = (InflightCount > 0)
    /\ UNCHANGED <<mounted, urlSymbol, symbol, stockData, multiDayData, history, favorites,
                   storedHistory, storedFavorites, searches>>
    /\ UNCHANGED gvars

\* lines 119-130: fetchStock of a render whose symbol was `captured`, up to the
\* network call
FetchStock(captured, via) ==
    /\ stockData' = None
    /\ multiDayData' = <<>>
    /\ IF captured = ""
       THEN /\ error' = "Please enter a stock symbol"
            /\ UNCHANGED <<loading, inflight>>
       ELSE /\ error' = ""
            /\ loading' = TRUE
            /\ inflight' = inflight (+) SetToBag({captured})
    /\ last' = Event("fetch", via, captured, NoReply, <<>>, <<>>)
    /\ overlapped' = (InflightCount > 0)
    /\ UNCHANGED <<mounted, urlSymbol, symbol, history, favorites,
                   storedHistory, storedFavorites, searches>>
    /\ UNCHANGED gvars

\* the Get Data button without disabled={loading}
ClickGetDataEnabled(cap) ==
    /\ mounted
    /\ symbol # "" => PendingCount < cap
    /\ FetchStock(symbol, "button")
    /\ UNCHANGED timers

\* line 257: the Get Data button, disabled while loading
ClickGetData(cap) ==
    /\ mounted
    /\ ~loading
    /\ symbol # "" => PendingCount < cap
    /\ FetchStock(symbol, "button")
    /\ UNCHANGED timers

\* lines 245-247: Enter in the input, disabled while loading
PressEnter(cap) ==
    /\ mounted
    /\ ~loading
    /\ symbol # "" => PendingCount < cap
    /\ FetchStock(symbol, "enter")
    /\ UNCHANGED timers

\* lines 268-276: a history button; its timer holds the fetchStock of the
\* render that was clicked
ClickHistory(cap) ==
    /\ mounted
    /\ PendingCount < cap
    /\ \E i \in 1..Len(history) :
        /\ symbol' = history[i]
        /\ timers' = timers (+) SetToBag({Timer(symbol, "history")})
        /\ last' = NoEvent
    /\ UNCHANGED <<mounted, urlSymbol, stockData, error, loading, history, favorites,
                   multiDayData, storedHistory, storedFavorites, inflight, searches>>
    /\ UNCHANGED overlapped
    /\ UNCHANGED gvars

\* lines 192, 274: a timer fires and runs the fetchStock it holds
TimerFires ==
    /\ \E t \in BagToSet(timers) :
        /\ timers' = timers (-) SetToBag({t})
        /\ FetchStock(t.sym, t.origin)

\* lines 131-176: the network call of a suspended fetchStock settles
FetchSettles(replies) ==
    /\ \E captured \in BagToSet(inflight), reply \in replies :
        /\ inflight' = inflight (-) SetToBag({captured})
        /\ last' = Event("settle", "", captured, reply, <<>>, <<>>)
        /\ loading' = FALSE
        /\ IF reply.kind = "throw" \/ reply.data.t = "null"
           THEN /\ error' = "Error fetching stock data"
                /\ UNCHANGED <<stockData, multiDayData, history, storedHistory>>
           ELSE IF ~reply.ok
           THEN /\ error' = IF FieldTruthy(reply.data, "Error Message")
                            THEN reply.data.fields["Error Message"].v
                            ELSE "Failed to fetch stock data"
                /\ UNCHANGED <<stockData, multiDayData, history, storedHistory>>
           ELSE IF ~FieldTruthy(reply.data, "Time Series (Daily)")
           THEN /\ error' = "No time series data available for this symbol"
                /\ UNCHANGED <<stockData, multiDayData, history, storedHistory>>
           ELSE LET timeSeries == reply.data.fields["Time Series (Daily)"].v IN
                IF DOMAIN timeSeries = {}
                THEN \* latestData is undefined: line 160 throws, line 174 catches
                     /\ error' = "Error fetching stock data"
                     /\ UNCHANGED <<stockData, multiDayData, history, storedHistory>>
                ELSE /\ stockData' = Some(Snapshot(timeSeries))
                     /\ multiDayData' = MultiDays(timeSeries)
                     /\ history' = AddToHistory(history, captured)
                     /\ storedHistory' = Stored(history')
                     /\ UNCHANGED error
    /\ UNCHANGED <<mounted, urlSymbol, symbol, favorites, storedFavorites, timers, searches>>
    /\ UNCHANGED overlapped
    /\ UNCHANGED gvars

\* the star of the card without the persist effect of lines 82-84
ClickFavoriteNoPersist ==
    /\ mounted
    /\ stockData # None
    /\ favorites' = ToggleFavorite(favorites, symbol)
    /\ last' = Event("toggle", "", symbol, NoReply, favorites,
                   IF last.op = "toggle" /\ last.sym = symbol THEN Some(last.before) ELSE None)
    /\ UNCHANGED <<mounted, urlSymbol, symbol, stockData, error, loading, history,
                   multiDayData, storedHistory, storedFavorites, timers, inflight, searches>>
    /\ UNCHANGED overlapped
    /\ UNCHANGED gvars

\* lines 290-291, 82-84: the star of the card, shown while stockData is set, and
\* the persist effect of the render it causes
ClickFavorite ==
    /\ mounted
    /\ stockData # None
    /\ favorites' = ToggleFavorite(favorites, symbol)
    /\ storedFavorites' = Stored(favorites')
    /\ last' = Event("toggle", "", symbol, NoReply, favorites,
                   IF last.op = "toggle" /\ last.sym = symbol THEN Some(last.before) ELSE None)
    /\ UNCHANGED <<mounted, urlSymbol, symbol, stockData, error, loading, history,
                   multiDayData, storedHistory, timers, inflight, searches>>
    /\ UNCHANGED overlapped
    /\ UNCHANGED gvars

GatewayIdle ==
    /\ gpc = "entry"
    /\ reqSymbol = "AAPL"
    /\ API_KEY = "demo"
    /\ response = NoResponse
    /\ fetched = <<>>
    /\ res = <<>>

UrlParams  == {NoParam, "aapl"}
InputTexts == {"", "aapl"}

\* the replies of Spec and SpecOverlap, of SpecSeries and of SpecHistory
ShortReplies   == Replies(SeriesOver(NumDays, {1}))
LongReplies    == Replies(SeriesOver(NumDaysLong, {1, 2}))
HistoryReplies == {ReplyThrow, ReplyOk(SeriesData(OneDaySeries))}
SeriesInputs   == {"aapl"}

Init == InitController(UrlParams, StoredLists) /\ GatewayIdle

\* the whole page
Next ==
    \/ Mount
    \/ ChangeInput(InputTexts)
    \/ ClickGetData(MaxPending)
    \/ PressEnter(MaxPending)
    \/ ClickHistory(MaxPending)
    \/ TimerFires
    \/ FetchSettles(ShortReplies)
    \/ ClickFavorite

Spec == Init /\ [][Next]_vars

\* more timers and fetches pending at once; the favourite star, which neither
\* reads nor writes what fetchStock does, is left alone
NextOverlap ==
    \/ Mount
    \/ ChangeInput(InputTexts)
    \/ ClickGetData(MaxOverlap)
    \/ PressEnter(MaxOverlap)
    \/ ClickHistory(MaxOverlap)
    \/ TimerFires
    \/ FetchSettles(ShortReplies)

SpecOverlap == Init /\ [][NextOverlap]_vars

\* fetches over series of up to NumDaysLong days
NoUrl       == {NoParam}
EmptyStores == {<<None, None>>}

InitSeries == InitController(NoUrl, EmptyStores) /\ GatewayIdle

NextSeries ==
    \/ Mount
    \/ ChangeInput(SeriesInputs)
    \/ ClickGetData(1)
    \/ FetchSettles(LongReplies)

SpecSeries == InitSeries /\ [][NextSeries]_vars

\* searches over NumTickers symbols, from an empty history
NextHistory ==
    \/ Mount
    \/ TypeSearch
    \/ ClickGetData(1)
    \/ FetchSettles(HistoryReplies)

SpecHistory == InitSeries /\ [][NextHistory]_vars

(***************************************************************************)
(* Claims about the Dashboard Controller                                   *)
(***************************************************************************)
\* the reply carries a "Time Series (Daily)" mapping and HTTP success
CarriesSeries(reply) ==
    /\ reply.kind = "json"
    /\ reply.ok
    /\ HasField(reply.data, "Time Series (Daily)")
    /\ reply.data.fields["Time Series (Daily)"].t = "obj"

SeriesOf(reply) == reply.data.fields["Time Series (Daily)"].v

\* the dates of a series, by calendar day
Days(timeSeries) == {DayOf(d) : d \in DOMAIN timeSeries}
MaxDay(days) == CHOOSE m \in days : \A x \in days : x <= m
CloseOn(timeSeries, day) ==
    LET d == CHOOSE k \in DOMAIN timeSeries : DayOf(k) = day
    IN ToNumber(timeSeries[d]["4. close"])

\* the network call of a fetchStock has just settled with a series of n entries
SettledSeries == last.op = "settle" /\ CarriesSeries(last.reply)
EntryCount == Cardinality(DOMAIN SeriesOf(last.reply))

\* C4 as stated: after a Fetch whose gateway response is HTTP success and carries
\* a series of n >= 0 dated entries, there is a snapshot, its previousClose is
\* null exactly when n < 2, for n >= 2 it is the close of the second-newest
\* date, and its date is the newest date.
C4_AsStated ==
    SettledSeries =>
        LET timeSeries == SeriesOf(last.reply)
            days == Days(timeSeries)
        IN /\ stockData # None
           /\ (stockData[1].prevClose = None) <=> (EntryCount < 2)
           /\ EntryCount >= 1 => DayOf(stockData[1].date) = MaxDay(days)
           /\ EntryCount >= 2 =>
                stockData[1].prevClose =
                    Some(CloseOn(timeSeries, MaxDay(days \ {MaxDay(days)})))

\* C4 on the series that have an entry (n >= 1): what the code does there
C4_FromOneEntry == (SettledSeries /\ EntryCount >= 1) => C4_AsStated

\* C5: from an empty SearchHistory, after any sequence of appends the history
\* has at most 10 entries, holds no symbol twice, and its first entry is the
\* symbol of the most recent append.
C5_HistoryBounded ==
    /\ Len(history) <= 10
    /\ \A i, j \in 1..Len(history) : i # j => history[i] # history[j]
    /\ (SettledSeries /\ EntryCount >= 1) =>
          (history # <<>> /\ history[1] = last.sym)

\* an append to a full history: the eleventh ticker is first, the first is gone
C5_Witness ==
    /\ SettledSeries
    /\ Len(history) = 10
    /\ history[1] = Tickers[11]
    /\ ~Contains(history, Tickers[1])

\* C6 as stated: with a symbol S in the URL, S upper-cased is the current Symbol
\* and the Fetch run by the startup timer takes it as its input: it passes
\* validation and calls the gateway with S.
C6_AsStated ==
    (last.op = "fetch" /\ last.via = "mount" /\ symbol = Upper(urlSymbol)) =>
        /\ last.sym = symbol
        /\ error = ""
        /\ loading
        /\ CopiesIn(symbol, inflight) >= 1

\* C7 as stated: while the loading flag is set, nothing starts another Fetch
\* that reaches the gateway call.
C7_AsStated == [][loading => InflightCount' <= InflightCount]_vars

\* C7 amended: while the loading flag is set, the Get Data button and Enter in
\* the input start no Fetch; a Fetch that reaches the gateway call is then
\* started only by the timer of a search-history button, so more than one Fetch
\* can be in flight.
C7_OnlyTimersWhileLoading ==
    [][(loading /\ InflightCount' > InflightCount) =>
          /\ last'.op = "fetch"
          /\ last'.via = "history"
          /\ TimerCount' < TimerCount]_vars

\* a history timer has started a second Fetch while one was in flight
C7_Witness ==
    /\ loading
    /\ last.op = "fetch"
    /\ last.via = "history"
    /\ InflightCount = 2

\* C8 as stated: a Fetch invoked while the current Symbol is empty fails with the
\* validation message, makes no call to the gateway and does not set the
\* loading flag.
C8_AsStated ==
    [][(last'.op = "fetch" /\ symbol = "") =>
          /\ error' = "Please enter a stock symbol"
          /\ inflight' = inflight
          /\ loading' = loading]_vars

\* C9: after a Fetch that ends without an error message on a series of n dated
\* entries, RecentSeries has min(10, n) bars, of the newest dates, ordered
\* strictly newest-first.
C9_RecentSeries ==
    (SettledSeries /\ error = "") =>
        LET days == Days(SeriesOf(last.reply))
            k    == IF EntryCount < 10 THEN EntryCount ELSE 10
        IN /\ Len(multiDayData) = k
           /\ \A i \in 1..(Len(multiDayData) - 1) :
                DayOf(multiDayData[i].date) > DayOf(multiDayData[i + 1].date)
           /\ \A i \in 1..Len(multiDayData) :
                /\ DayOf(multiDayData[i].date) \in days
                /\ Cardinality({x \in days : x > DayOf(multiDayData[i].date)}) = i - 1

\* a series of more than 10 entries has been cut to 10 bars
C9_Witness ==
    /\ SettledSeries
    /\ error = ""
    /\ EntryCount = 11
    /\ Len(multiDayData) = 10

Members(seq) == {seq[i] : i \in 1..Len(seq)}

\* C10: two consecutive toggleFavorite operations on one symbol leave the
\* membership of every symbol in Favorites as it was before the two.
C10_ToggleTwice ==
    (last.op = "toggle" /\ last.twoBefore # None) =>
        \A sym \in Members(favorites) \cup Members(last.twoBefore[1]) \cup {last.sym} :
            (sym \in Members(favorites)) <=> (sym \in Members(last.twoBefore[1]))

\* a favourite has been removed and added again, with another one kept
C10_Witness ==
    /\ last.op = "toggle"
    /\ last.twoBefore # None
    /\ Contains(favorites, last.sym)
    /\ Len(favorites) = 2

\* the array that the text stored under a key holds is `list`
Holds(item, list) == item # None /\ Parse(item[1]) = <<TRUE, list>>

\* the step is the startup of the page
IsStartup == ~mounted /\ mounted'

\* C11: after startup the two stored arrays equal the in-memory SearchHistory
\* and Favorites in every state between two handlers; every step that changes
\* a list writes the new list to storage in that step; and the lists change
\* only through the startup restore, a history append and a favorites toggle.
C11_PersistedLists ==
    /\ [](mounted => Holds(storedHistory, history) /\ Holds(storedFavorites, favorites))
    /\ [][/\ history' # history => Holds(storedHistory', history')
          /\ favorites' # favorites => Holds(storedFavorites', favorites')
          /\ history' # history =>
                \/ IsStartup
                \/ last'.op = "settle" /\ history' = AddToHistory(history, last'.sym)
          /\ favorites' # favorites =>
                \/ IsStartup
                \/ last'.op = "toggle" /\ favorites' = <<>> \o
                     (IF Contains(favorites, last'.sym)
                      THEN SelectSeq(favorites, LAMBDA f : f # last'.sym)
                      ELSE favorites \o <<last'.sym>>)]_vars

\* both lists were restored at startup and both have been changed since: the
\* storage holds a history of two symbols and a favourite added to the restored one
C11_Witness ==
    /\ mounted
    /\ last.op = "toggle"
    /\ history = <<"AAPL", "MSFT">>
    /\ favorites = <<"MSFT", "AAPL">>
    /\ storedHistory = Some(<<"[", "\"AAPL\"", ",", "\"MSFT\"", "]">>)
    /\ storedFavorites = Some(<<"[", "\"MSFT\"", ",", "\"AAPL\"", "]">>)

\* an error message is shown next to a quote or a series
ErrorBesideQuote == error # "" /\ (stockData # None \/ multiDayData # <<>>)

\* C12 as stated: an error message and a QuoteSnapshot (or RecentSeries) are
\* never present together, under any interleaving of Fetch starts and completions.
C12_AsStated == ~ErrorBesideQuote

\* C12: an error message and a QuoteSnapshot (or RecentSeries) are present
\* together only when the latest Fetch was started while another Fetch was in
\* flight; as long as Fetches do not overlap, a Fetch that ends in an error
\* leaves no quote displayed.
C12_UnlessOverlapped == ErrorBesideQuote => overlapped

\* AAPL was fetched with success and its quote displayed; a later Fetch, started
\* with no other in flight, has ended in an error and nothing is displayed
C12_Witness ==
    /\ last.op = "settle"
    /\ ~overlapped
    /\ error # ""
    /\ Contains(history, "AAPL")
    /\ stockData = None
    /\ multiDayData = <<>>

(***************************************************************************)
(* Claims about the Quote Gateway (checked under SpecGateway)              *)
(***************************************************************************)
\* the handler has answered a 2xx upstream response whose body parsed as JSON
AnsweredJson ==
    /\ gpc = "done"
    /\ response.kind = "response"
    /\ Ok(response.status)
    /\ response.data # InvalidJson

Reply(code, body) == <<[status |-> code, body |-> body]>>

\* C1 as stated: for every 2xx upstream response with a JSON payload, a payload
\* that HAS an "Error Message" field is answered 500 {error: message}; else one
\* that HAS a "Note" field is answered 429 {error: note}; else 200 with the
\* payload unmodified.
C1_AsStated ==
    AnsweredJson =>
        LET data == response.data IN
        res = IF HasField(data, "Error Message")
              THEN Reply(500, ErrorBody(data.fields["Error Message"]))
              ELSE IF HasField(data, "Note")
              THEN Reply(429, ErrorBody(data.fields["Note"]))
              ELSE Reply(200, data)

\* C1 amended: for every 2xx upstream response whose JSON payload is not null, a
\* payload whose "Error Message" field is truthy (present and not "", 0, false
\* or null) is answered 500 {error: message}; else one whose "Note" field is
\* truthy is answered 429 {error: note}; else 200 with the payload unmodified.
\* Both fields truthy gives 500; {"Note": "rate limited"} gives 429 with
\* {"error": "rate limited"}.
C1_Classification ==
    (AnsweredJson /\ response.data.t # "null") =>
        LET data == response.data IN
        /\ res = IF HasField(data, "Error Message") /\ Truthy(data.fields["Error Message"])
                 THEN Reply(500, ErrorBody(data.fields["Error Message"]))
                 ELSE IF HasField(data, "Note") /\ Truthy(data.fields["Note"])
                 THEN Reply(429, ErrorBody(data.fields["Note"]))
                 ELSE Reply(200, data)
        /\ (data = Obj([k \in {"Note"} |-> Str("rate limited")])
                => res = Reply(429, Obj([k \in {"error"} |-> Str("rate limited")])))

\* a payload carrying both fields, both truthy, has been answered 500
C1_Witness ==
    /\ AnsweredJson
    /\ HasField(response.data, "Error Message")
    /\ HasField(response.data, "Note")
    /\ Truthy(response.data.fields["Error Message"])
    /\ Truthy(response.data.fields["Note"])
    /\ res[1].status = 500

BadSymbol == reqSymbol \in {Undefined, "", ArrayParam}
NoKey     == API_KEY \in {Undefined, ""}

\* C2: every request gets exactly one response and at most one upstream GET:
\* none when the symbol is missing, empty or not a string (400) or no API key
\* is configured (500), exactly one otherwise, and none is added when the
\* upstream call throws (500 with the generic fetch-failure message).
C2_OneResponseOneFetch ==
    /\ Len(res) <= 1
    /\ Len(fetched) <= 1
    /\ (gpc = "done") <=> (Len(res) = 1)
    /\ BadSymbol =>
          /\ Len(fetched) = 0
          /\ gpc = "done" => res[1].status = 400
    /\ (~BadSymbol /\ NoKey) =>
          /\ Len(fetched) = 0
          /\ gpc = "done" => res[1].status = 500
    /\ (~BadSymbol /\ ~NoKey /\ gpc # "entry") => Len(fetched) = 1
    /\ response = NetworkError =>
          /\ Len(fetched) = 1
          /\ res = Reply(500, Obj([k \in {"error"} |-> Str("Failed to fetch data")]))

\* the upstream call threw, and the handler answered once after one GET
C2_Witness ==
    /\ gpc = "done"
    /\ response = NetworkError
    /\ Len(fetched) = 1
    /\ Len(res) = 1

\* the handler has answered a non-2xx upstream response whose body text was read
AnsweredText ==
    /\ gpc = "done"
    /\ response.kind = "response"
    /\ ~Ok(response.status)
    /\ response.text # Unreadable

\* C3 as stated: a non-2xx upstream status S with body text T is answered with
\* status S and the body {error: T}.
C3_AsStated ==
    AnsweredText => res = Reply(response.status, Obj([k \in {"error"} |-> Str(response.text)]))

\* C3 amended: a non-2xx upstream status S whose body text T was read is
\* answered with status S and the body {error: "Alpha Vantage error: " + T}.
C3_PrefixedError ==
    AnsweredText =>
        res = Reply(response.status,
                    Obj([k \in {"error"} |-> Str("Alpha Vantage error: " \o response.text)]))

\* a 404 with body "Not Found" has been answered
C3_Witness ==
    /\ AnsweredText
    /\ response.status = 404
    /\ response.text = "Not Found"
    /\ Len(res) = 1

====
